---- MODULE Spec2Model ----
(***************************************************************************)
(* Model of the transcript ingestion pipeline of lenny-wisdom-mcp           *)
(* (src/scripts/ingest_transcripts.py).                                     *)
(*                                                                         *)
(* Text is a sequence of tokens.  A token is a one-character string, or    *)
(* the filler token of FillerWords: a run of that many lower-case words    *)
(* separated by single spaces, which holds no punctuation.  A filler lets  *)
(* a turn of more than CHUNK_MAX_WORDS words be written in a few tokens.   *)
(***************************************************************************)
EXTENDS Integers, Sequences, FiniteSets, TLC

VARIABLES
    call,              \* a call of one of the module-level functions: argument and result
    docs,              \* the episode directories, sorted, each with its transcript.md
    run,               \* the number of the running ingest_all invocation
    pc,                \* the position of the ingester
    dir,               \* index of the episode directory the loop of ingest_all is at
    episode,           \* the EpisodeData being ingested
    guest_names,       \* ingest_episode: the parsed guest names
    guest_ids,         \* ingest_episode: the identifiers resolved so far
    linked,            \* link_episode_guests: the guest_ids linked so far
    episode_id,        \* ingest_episode: the identifier upsert_episode returned
    batch_i,           \* upsert_chunks: i, the start of the current batch
    embeddings,        \* upsert_chunks: the embeddings got for the current batch
    batch_j,           \* upsert_chunks: j, the position in the current batch
    guest_cache,       \* TranscriptIngester.guest_cache: slug -> identifier
    guest_writes,      \* the slugs written to table guests by this ingester, in order
    guests,            \* table guests
    episodes,          \* table episodes
    episode_guests,    \* table episode_guests
    transcript_chunks, \* table transcript_chunks
    next_id,           \* the next identifier the store hands out
    failures,          \* the external calls that have failed so far
    outcome,           \* what became of each directory of this run, in order
    written,           \* the chunk_index values written for the current episode, in order
    first_run_rows     \* the row counts when the first run ended

ingesterVars ==
    <<docs, run, pc, dir, episode, guest_names, guest_ids, linked, episode_id, batch_i, embeddings, batch_j,
      guest_cache, guest_writes, guests, episodes, episode_guests, transcript_chunks, next_id,
      failures, outcome, written, first_run_rows>>

vars == <<call, ingesterVars>>

NoRows == [guests |-> 0, episodes |-> 0, episode_guests |-> 0, transcript_chunks |-> 0]

\* no ingester is running: the state of the specifications of the pure functions
IngesterIdle ==
    /\ docs = <<>> /\ run = 0 /\ pc = "idle" /\ dir = 0
    /\ episode = [kind |-> "None"]
    /\ guest_names = <<>> /\ guest_ids = <<>> /\ linked = 0 /\ episode_id = 0
    /\ batch_i = 0 /\ embeddings = <<>> /\ batch_j = 0
    /\ guest_cache = <<>> /\ guest_writes = <<>>
    /\ guests = <<>> /\ episodes = <<>> /\ episode_guests = <<>> /\ transcript_chunks = <<>>
    /\ next_id = 1 /\ failures = 0 /\ outcome = <<>> /\ written = <<>>
    /\ first_run_rows = NoRows

(***************************************************************************)
(* Characters and the Python string primitives the script uses             *)
(***************************************************************************)
Digits == {"0", "1", "2", "3", "4", "5", "6", "7", "8", "9"}

DigitVal == [c \in Digits |->
               CASE c = "0" -> 0 [] c = "1" -> 1 [] c = "2" -> 2 [] c = "3" -> 3
                 [] c = "4" -> 4 [] c = "5" -> 5 [] c = "6" -> 6 [] c = "7" -> 7
                 [] c = "8" -> 8 [] c = "9" -> 9]

Spaces == {" ", "\n", "\t"}

IsSpace(c) == c \in Spaces

IsDigit(c) == c \in Digits

\* str.strip(chars): drop the leading and trailing tokens that are in chars
RECURSIVE LStrip(_, _)
LStrip(s, chars) ==
    IF s # <<>> /\ Head(s) \in chars THEN LStrip(Tail(s), chars) ELSE s

RECURSIVE RStrip(_, _)
RStrip(s, chars) ==
    IF s # <<>> /\ s[Len(s)] \in chars
    THEN RStrip(SubSeq(s, 1, Len(s) - 1), chars)
    ELSE s

Strip(s, chars) == RStrip(LStrip(s, chars), chars)

\* s[i..] starts with p
StartsWithAt(s, i, p) ==
    /\ i + Len(p) - 1 =< Len(s)
    /\ \A k \in 1..Len(p) : s[i + k - 1] = p[k]

\* str.split(sep, maxsplit): the pieces between the non-overlapping
\* occurrences of sep found left to right; maxsplit < 0 means no limit
RECURSIVE SplitFrom(_, _, _, _)
SplitFrom(s, sep, maxsplit, start) ==
    LET found == {i \in start..Len(s) : StartsWithAt(s, i, sep)}
    IN  IF found = {} \/ maxsplit = 0
        THEN <<SubSeq(s, start, Len(s))>>
        ELSE LET i == CHOOSE i \in found : \A k \in found : i =< k
             IN  <<SubSeq(s, start, i - 1)>>
                 \o SplitFrom(s, sep, maxsplit - 1, i + Len(sep))

Split(s, sep, maxsplit) == SplitFrom(s, sep, maxsplit, 1)

\* int(s) of Python: surrounding whitespace is ignored, the rest must be a
\* non-empty run of decimal digits (the alphabets used here hold no sign and
\* no underscore); anything else raises ValueError
RECURSIVE DigitsValue(_)
DigitsValue(s) ==
    IF s = <<>> THEN 0
    ELSE 10 * DigitsValue(SubSeq(s, 1, Len(s) - 1)) + DigitVal[s[Len(s)]]

IntOk(s) ==
    LET t == Strip(s, Spaces)
    IN  t # <<>> /\ \A k \in 1..Len(t) : IsDigit(t[k])

IntValue(s) == DigitsValue(Strip(s, Spaces))

(***************************************************************************)
(* parse_timestamp                                                         *)
(***************************************************************************)
Returned(v) == [raised |-> FALSE, value |-> v]

Raised == [raised |-> TRUE, value |-> 0]

parse_timestamp(ts) ==
    LET parts == Split(Strip(ts, {"(", ")"}), <<":">>, -1)
    IN  IF Len(parts) = 3
        THEN IF IntOk(parts[1]) /\ IntOk(parts[2]) /\ IntOk(parts[3])
             THEN Returned(IntValue(parts[1]) * 3600 + IntValue(parts[2]) * 60
                           + IntValue(parts[3]))
             ELSE Raised
        ELSE IF Len(parts) = 2
             THEN IF IntOk(parts[1]) /\ IntOk(parts[2])
                  THEN Returned(IntValue(parts[1]) * 60 + IntValue(parts[2]))
                  ELSE Raised
             ELSE Returned(0)

\* Inputs of parse_timestamp: the examples of the documentation and every
\* string of at most MaxTsLen characters over TsAlphabet
MaxTsLen == 4

TsAlphabet == {"1", "7", ":", "g"}

RECURSIVE SeqsUpTo(_, _)
SeqsUpTo(S, n) ==
    IF n = 0 THEN {<<>>}
    ELSE LET shorter == SeqsUpTo(S, n - 1)
         IN  UNION {shorter, {Append(s, c) : s \in {t \in shorter : Len(t) = n - 1}, c \in S}}

TsExamples ==
    { <<"0", "1", ":", "0", "2", ":", "0", "3">>,
      <<"0", "2", ":", "3", "0">>,
      <<"g", "a", "r", "b", "a", "g", "e">>,
      <<"(", "0", "0", ":", "0", "1", ":", "1", "5", ")">>,
      <<"1", ":", "0", "2", ":", "0", "3">>,
      <<"a", "b", ":", "c", "d">> }

TsInputs == TsExamples \cup SeqsUpTo(TsAlphabet, MaxTsLen)

NoCall == [fn |-> "none", arg |-> <<>>, done |-> FALSE, ret |-> Returned(0)]

InitTimestamp ==
    \E ts \in TsInputs :
        /\ call = [fn |-> "parse_timestamp", arg |-> ts, done |-> FALSE,
                    ret |-> Returned(0)]
        /\ IngesterIdle

CallParseTimestamp ==
    /\ call.fn = "parse_timestamp"
    /\ ~call.done
    /\ call' = [call EXCEPT !.done = TRUE, !.ret = parse_timestamp(call.arg)]
    /\ UNCHANGED ingesterVars

NextTimestamp == CallParseTimestamp

SpecTimestamp == InitTimestamp /\ [][NextTimestamp]_vars

\* The shapes the documentation names: H:MM:SS and MM:SS, every part a run of digits
AllDigits(s) == s # <<>> /\ \A k \in 1..Len(s) : IsDigit(s[k])

TsParts(ts) == Split(Strip(ts, {"(", ")"}), <<":">>, -1)

IsHMS(ts) == Len(TsParts(ts)) = 3 /\ \A k \in 1..3 : AllDigits(TsParts(ts)[k])

IsMS(ts) == Len(TsParts(ts)) = 2 /\ \A k \in 1..2 : AllDigits(TsParts(ts)[k])

\* C7: parse_timestamp gives H*3600+MM*60+SS for H:MM:SS, MM*60+SS for MM:SS,
\* and for a string of any other shape it returns 0 without raising.
C7_TimestampTotal ==
    (call.fn = "parse_timestamp" /\ call.done) =>
        LET ts == call.arg
            p  == TsParts(ts)
        IN  IF IsHMS(ts)
            THEN call.ret = Returned(DigitsValue(p[1]) * 3600 + DigitsValue(p[2]) * 60
                                     + DigitsValue(p[3]))
            ELSE IF IsMS(ts)
                 THEN call.ret = Returned(DigitsValue(p[1]) * 60 + DigitsValue(p[2]))
                 ELSE call.ret = Returned(0)

(***************************************************************************)
(* parse_guest_names                                                       *)
(***************************************************************************)
separators ==
    << <<" ", "a", "n", "d", " ">>, <<" ", "&", " ">>, <<",", " ">>,
       <<" ", "w", "i", "t", "h", " ">> >>

\* new_names.extend(name.split(sep)) for every name of names
RECURSIVE SplitAll(_, _)
SplitAll(names, sep) ==
    IF names = <<>> THEN <<>>
    ELSE Split(Head(names), sep, -1) \o SplitAll(Tail(names), sep)

RECURSIVE SplitBySeparators(_, _)
SplitBySeparators(names, k) ==
    IF k > Len(separators) THEN names
    ELSE SplitBySeparators(SplitAll(names, separators[k]), k + 1)

\* [name.strip() for name in names if name.strip()]
RECURSIVE StripNonEmpty(_)
StripNonEmpty(names) ==
    IF names = <<>> THEN <<>>
    ELSE LET n == Strip(Head(names), Spaces)
         IN  (IF n # <<>> THEN <<n>> ELSE <<>>) \o StripNonEmpty(Tail(names))

parse_guest_names(guest_str) ==
    StripNonEmpty(SplitBySeparators(<<guest_str>>, 1))

\* Inputs of parse_guest_names: the documentation's example and every
\* concatenation of at most MaxGuestParts pieces of GuestPieces
MaxGuestParts == 4

GuestPieces ==
    { <<"A", "l">>, <<"B">>, <<" ", "a", "n", "d", " ">>, <<" ", "&", " ">>,
      <<",", " ">>, <<" ", "w", "i", "t", "h", " ">>, <<",">>, <<" ">> }

RECURSIVE Concats(_, _)
Concats(P, n) ==
    IF n = 0 THEN {<<>>}
    ELSE LET shorter == Concats(P, n - 1)
         IN  UNION {shorter, {s \o p : s \in shorter, p \in P}}

BrianAndElena ==
    <<"B", "r", "i", "a", "n", " ", "C", "h", "e", "s", "k", "y", " ", "a", "n", "d", " ",
      "E", "l", "e", "n", "a", " ", "V", "e", "r", "n", "a">>

GuestInputs == {BrianAndElena} \cup Concats(GuestPieces, MaxGuestParts)

InitGuests ==
    \E g \in GuestInputs :
        /\ call = [fn |-> "parse_guest_names", arg |-> g, done |-> FALSE, ret |-> <<>>]
        /\ IngesterIdle

CallParseGuestNames ==
    /\ call.fn = "parse_guest_names"
    /\ ~call.done
    /\ call' = [call EXCEPT !.done = TRUE, !.ret = parse_guest_names(call.arg)]
    /\ UNCHANGED ingesterVars

NextGuests == CallParseGuestNames

SpecGuests == InitGuests /\ [][NextGuests]_vars

\* The positions of s that lie inside an occurrence of one of the separators
InSeparator(s, i) ==
    \E k \in 1..Len(separators) :
        \E b \in 1..i : b + Len(separators[k]) > i /\ StartsWithAt(s, b, separators[k])

\* s cut at every occurrence of every separator: the maximal runs of
\* positions outside all occurrences, in order
RECURSIVE CutRuns(_, _, _)
CutRuns(s, i, cur) ==
    IF i > Len(s) THEN <<cur>>
    ELSE IF InSeparator(s, i)
         THEN <<cur>> \o CutRuns(s, i + 1, <<>>)
         ELSE CutRuns(s, i + 1, Append(cur, s[i]))

SplitAtEveryOccurrence(s) == StripNonEmpty(CutRuns(s, 1, <<>>))

\* C10: parse_guest_names cuts the guest field at every occurrence of any of
\* the four separators and returns the names in order, trimmed, none empty.
C10_SplitsAtEverySeparator ==
    (call.fn = "parse_guest_names" /\ call.done) =>
        call.ret = SplitAtEveryOccurrence(call.arg)

(***************************************************************************)
(* count_words and the character classes of the regular expressions        *)
(***************************************************************************)
Upper == {"A", "B", "C", "D", "E", "F", "G", "H", "I", "J", "K", "L", "M",
          "N", "O", "P", "Q", "R", "S", "T", "U", "V", "W", "X", "Y", "Z"}

Lower == {"a", "b", "c", "d", "e", "f", "g", "h", "i", "j", "k", "l", "m",
          "n", "o", "p", "q", "r", "s", "t", "u", "v", "w", "x", "y", "z"}

Letters == Upper \cup Lower

\* The filler tokens and the number of words each stands for
Fillers == {"<w150>", "<w250>", "<w300>", "<w450>", "<w601>"}

FillerWords(tok) ==
    CASE tok = "<w150>" -> 150
      [] tok = "<w250>" -> 250
      [] tok = "<w300>" -> 300
      [] tok = "<w450>" -> 450
      [] tok = "<w601>" -> 601

\* the first position at or behind p that holds whitespace, Len(t) + 1 if none
NextSpace(t, p) ==
    IF \E q \in p..Len(t) : IsSpace(t[q])
    THEN CHOOSE q \in p..Len(t) : IsSpace(t[q]) /\ \A r \in p..(q - 1) : ~IsSpace(t[r])
    ELSE Len(t) + 1

\* the first position at or behind p that holds no whitespace, Len(t) + 1 if none
SkipSpaces(t, p) ==
    IF \E q \in p..Len(t) : ~IsSpace(t[q])
    THEN CHOOSE q \in p..Len(t) : ~IsSpace(t[q]) /\ \A r \in p..(q - 1) : IsSpace(t[r])
    ELSE Len(t) + 1

\* the words a run of tokens without whitespace holds: one, and for every
\* filler in it the words of the filler, whose first and last join the run
RECURSIVE WordsOfRun(_)
WordsOfRun(run_tokens) ==
    IF run_tokens = <<>> THEN 1
    ELSE (IF Head(run_tokens) \in Fillers THEN FillerWords(Head(run_tokens)) - 1 ELSE 0)
         + WordsOfRun(Tail(run_tokens))

\* len(text.split()), counted run by run from position p
RECURSIVE CountFrom(_, _)
CountFrom(text, p) ==
    LET b == SkipSpaces(text, p)
        e == NextSpace(text, b)
    IN  IF b > Len(text) THEN 0
        ELSE WordsOfRun(SubSeq(text, b, e - 1)) + CountFrom(text, e)

count_words(text) == CountFrom(text, 1)

CHUNK_TARGET_WORDS == 400

CHUNK_MAX_WORDS == 600

(***************************************************************************)
(* The turn segmenter: turn_pattern.finditer(transcript_raw)               *)
(***************************************************************************)
\* [A-Za-z]
IsNameStart(tok) == tok \in Letters \cup Fillers

\* [A-Za-z\s\.]
IsNameChar(tok) == tok \in Letters \cup Spaces \cup {"."} \cup Fillers

\* \((\d{1,2}:\d{2}:\d{2})\): at position p; the number of hour digits, 0 if no match
MarkerHourDigits(t, p) ==
    LET Rest(q) == \* :\d{2}:\d{2}\): from q
            /\ q + 7 =< Len(t)
            /\ t[q] = ":" /\ IsDigit(t[q + 1]) /\ IsDigit(t[q + 2])
            /\ t[q + 3] = ":" /\ IsDigit(t[q + 4]) /\ IsDigit(t[q + 5])
            /\ t[q + 6] = ")" /\ t[q + 7] = ":"
    IN  IF p + 1 > Len(t) \/ t[p] # "(" \/ ~IsDigit(t[p + 1]) THEN 0
        ELSE IF p + 2 =< Len(t) /\ IsDigit(t[p + 2]) /\ Rest(p + 3) THEN 2
        ELSE IF Rest(p + 2) THEN 1
        ELSE 0

MarkerAt(t, p) == p =< Len(t) /\ MarkerHourDigits(t, p) > 0

\* (?:([A-Za-z][A-Za-z\s\.]+?)\s*)? : the lazy name ends at the first e for
\* which \s*\(...\): matches behind it; 0 if the group cannot match at p
RECURSIVE TryName(_, _)
TryName(t, e) ==
    IF MarkerAt(t, SkipSpaces(t, e)) THEN e
    ELSE IF e =< Len(t) /\ IsNameChar(t[e]) THEN TryName(t, e + 1)
    ELSE 0

NameEnd(t, p) ==
    IF p > Len(t) \/ ~IsNameStart(t[p]) THEN 0
    ELSE IF t[p] \in Fillers THEN TryName(t, p + 1)
    ELSE IF p + 1 =< Len(t) /\ IsNameChar(t[p + 1]) THEN TryName(t, p + 2)
    ELSE 0

NoMatch == [ok |-> FALSE, start |-> 0, end |-> 0, named |-> FALSE, name |-> <<>>,
            marker |-> 0, timestamp |-> <<>>]

\* the pattern behind (?:^|\n), tried at position p for a match starting at s
MatchBody(t, s, p) ==
    LET e == NameEnd(t, p)
        m == IF e > 0 THEN SkipSpaces(t, e) ELSE p
        h == IF m =< Len(t) THEN MarkerHourDigits(t, m) ELSE 0
    IN  IF h = 0 THEN NoMatch
        ELSE [ok |-> TRUE, start |-> s,
              end |-> SkipSpaces(t, m + h + 9),
              named |-> e > 0,
              name |-> IF e > 0 THEN SubSeq(t, p, e - 1) ELSE <<>>,
              marker |-> m,
              timestamp |-> SubSeq(t, m + 1, m + h + 6)]

\* ^ under re.MULTILINE
AtLineStart(t, s) == s = 1 \/ t[s - 1] = "\n"

MatchAt(t, s) ==
    IF AtLineStart(t, s) /\ MatchBody(t, s, s).ok THEN MatchBody(t, s, s)
    ELSE IF t[s] = "\n" THEN MatchBody(t, s, s + 1)
    ELSE NoMatch

\* finditer: the leftmost match at or behind pos, then on from its end
RECURSIVE FindIter(_, _)
FindIter(t, pos) ==
    LET found == {s \in pos..Len(t) : MatchAt(t, s).ok}
    IN  IF found = {} THEN <<>>
        ELSE LET m == MatchAt(t, CHOOSE s \in found : \A k \in found : s =< k)
             IN  <<m>> \o FindIter(t, m.end)

(***************************************************************************)
(* The chunk packer: lines 128-170 of parse_transcript_file                *)
(***************************************************************************)
SentenceEnd == {".", "!", "?"}

\* re.split(r'(?<=[.!?])\s+', content)
RECURSIVE SplitSentencesFrom(_, _, _)
SplitSentencesFrom(content, i, start) ==
    IF i > Len(content) THEN <<SubSeq(content, start, Len(content))>>
    ELSE IF IsSpace(content[i]) /\ i > 1 /\ content[i - 1] \in SentenceEnd
         THEN <<SubSeq(content, start, i - 1)>>
              \o SplitSentencesFrom(content, SkipSpaces(content, i), SkipSpaces(content, i))
         ELSE SplitSentencesFrom(content, i + 1, start)

SplitSentences(content) == SplitSentencesFrom(content, 1, 1)

\* " ".join(parts)
RECURSIVE JoinSpace(_)
JoinSpace(parts) ==
    IF parts = <<>> THEN <<>>
    ELSE IF Len(parts) = 1 THEN parts[1]
    ELSE parts[1] \o <<" ">> \o JoinSpace(Tail(parts))

\* a chunk that does not take the seconds of the timestamp
TranscriptChunkWithoutSeconds(speaker, timestamp, content, word_count) ==
    [speaker |-> speaker,
     timestamp_start |-> timestamp,
     timestamp_seconds |-> 0,
     content |-> content,
     word_count |-> word_count]

\* lines 141-147, 155-161, 164-170
TranscriptChunk(speaker, timestamp, content, word_count) ==
    [speaker |-> speaker,
     timestamp_start |-> timestamp,
     timestamp_seconds |-> parse_timestamp(timestamp).value,
     content |-> content,
     word_count |-> word_count]

\* the flush decided against the maximum instead of the target
FlushBeforeAgainstMax(current_chunk, current_words, sentence_words) ==
    current_words + sentence_words > CHUNK_MAX_WORDS /\ current_chunk # <<>>

\* lines 137-152: whether the buffer is flushed before the sentence is taken
FlushBefore(current_chunk, current_words, sentence_words) ==
    current_words + sentence_words > CHUNK_TARGET_WORDS /\ current_chunk # <<>>

\* the loop with lines 148-149 resetting the buffer to empty: the sentence
\* that caused the flush is lost
RECURSIVE PackSentencesDropping(_, _, _, _, _)
PackSentencesDropping(speaker, timestamp, sentences, current_chunk, current_words) ==
    IF sentences = <<>>
    THEN IF current_chunk # <<>>
         THEN <<TranscriptChunk(speaker, timestamp, JoinSpace(current_chunk),
                                count_words(JoinSpace(current_chunk)))>>
         ELSE <<>>
    ELSE LET sentence == Head(sentences)
             sentence_words == count_words(sentence)
         IN  IF FlushBefore(current_chunk, current_words, sentence_words)
             THEN <<TranscriptChunk(speaker, timestamp, JoinSpace(current_chunk),
                                    count_words(JoinSpace(current_chunk)))>>
                  \o PackSentencesDropping(speaker, timestamp, Tail(sentences), <<>>, 0)
             ELSE PackSentencesDropping(speaker, timestamp, Tail(sentences),
                                        Append(current_chunk, sentence),
                                        current_words + sentence_words)

\* lines 137-162: the loop over the sentences and the final flush
RECURSIVE PackSentences(_, _, _, _, _)
PackSentences(speaker, timestamp, sentences, current_chunk, current_words) ==
    IF sentences = <<>>
    THEN IF current_chunk # <<>>
         THEN <<TranscriptChunk(speaker, timestamp, JoinSpace(current_chunk),
                                count_words(JoinSpace(current_chunk)))>>
         ELSE <<>>
    ELSE LET sentence == Head(sentences)
             sentence_words == count_words(sentence)
         IN  IF FlushBefore(current_chunk, current_words, sentence_words)
             THEN <<TranscriptChunk(speaker, timestamp, JoinSpace(current_chunk),
                                    count_words(JoinSpace(current_chunk)))>>
                  \o PackSentences(speaker, timestamp, Tail(sentences),
                                   <<sentence>>, sentence_words)
             ELSE PackSentences(speaker, timestamp, Tail(sentences),
                                Append(current_chunk, sentence),
                                current_words + sentence_words)

\* the split decided against the target instead of the maximum
TooLargeAgainstTarget(word_count) == word_count > CHUNK_TARGET_WORDS

\* line 132
TooLarge(word_count) == word_count > CHUNK_MAX_WORDS

\* the chunks of one turn without the test of line 128
TurnChunksKeepingEmpty(speaker, timestamp, content) ==
    IF TooLarge(count_words(content))
    THEN PackSentences(speaker, timestamp, SplitSentences(content), <<>>, 0)
    ELSE <<TranscriptChunk(speaker, timestamp, content, count_words(content))>>

\* lines 128-170: the chunks of one turn
TurnChunks(speaker, timestamp, content) ==
    IF content = <<>> THEN <<>>
    ELSE IF TooLarge(count_words(content))
         THEN PackSentences(speaker, timestamp, SplitSentences(content), <<>>, 0)
         ELSE <<TranscriptChunk(speaker, timestamp, content, count_words(content))>>

(***************************************************************************)
(* parse_transcript_file                                                   *)
(***************************************************************************)
Unknown == <<"U", "n", "k", "n", "o", "w", "n">>

\* line 118: match.group(1) or current_speaker
SpeakerOf(m, current_speaker) == IF m.named THEN m.name ELSE current_speaker

\* lines 117-170: speaker, timestamp, content and chunks of every match, in
\* order; marker is the position of the "(" of the match
RECURSIVE Turns(_, _, _, _)
Turns(transcript_raw, matches, i, current_speaker) ==
    IF i > Len(matches) THEN <<>>
    ELSE LET m == matches[i]
             speaker == Strip(SpeakerOf(m, current_speaker), Spaces)
             end_pos == IF i + 1 =< Len(matches) THEN matches[i + 1].start - 1
                        ELSE Len(transcript_raw)
             content == Strip(SubSeq(transcript_raw, m.end, end_pos), Spaces)
         IN  <<[speaker |-> speaker, timestamp |-> m.timestamp, content |-> content,
                named |-> m.named, marker |-> m.marker,
                chunks |-> TurnChunks(speaker, m.timestamp, content)]>>
             \o Turns(transcript_raw, matches, i + 1, speaker)

\* chunks.append(...) over the whole loop: the chunks of all turns, in order
RECURSIVE ChunksOfTurns(_)
ChunksOfTurns(turns) ==
    IF turns = <<>> THEN <<>>
    ELSE turns[1].chunks \o ChunksOfTurns(Tail(turns))

\* a delimiter one dash short
DelimiterTwoDashes == <<"-", "-">>

Delimiter == <<"-", "-", "-">>

Heading == <<"#", "#", " ", "T", "r", "a", "n", "s", "c", "r", "i", "p", "t">>

\* re.search(r"## Transcript\s*\n(.+)", ..., re.DOTALL) matches at i
HeadingAt(tc, i) ==
    /\ StartsWithAt(tc, i, Heading)
    /\ LET q == SkipSpaces(tc, i + Len(Heading))
       IN  q =< Len(tc) /\ \E r \in (i + Len(Heading))..(q - 1) : tc[r] = "\n"

\* lines 100-104
TranscriptRaw(transcript_content) ==
    LET tc == transcript_content
    IN  IF \E i \in 1..Len(tc) : HeadingAt(tc, i)
        THEN LET i == CHOOSE i \in 1..Len(tc) :
                          HeadingAt(tc, i) /\ \A k \in 1..(i - 1) : ~HeadingAt(tc, k)
             IN  Strip(SubSeq(tc, i + Len(Heading), Len(tc)), Spaces)
        ELSE tc

\* What yaml.safe_load gives for the metadata block: a YAMLError, a value that
\* is no mapping (None for an empty block, a scalar, a list), or a mapping;
\* numbers_ok tells whether int() accepts its duration_seconds and view_count
YamlError == [kind |-> "YAMLError", guest |-> <<>>, title |-> "", numbers_ok |-> FALSE]

YamlNoMapping == [kind |-> "no_mapping", guest |-> <<>>, title |-> "", numbers_ok |-> FALSE]

YamlMapping(guest, title, numbers_ok) ==
    [kind |-> "mapping", guest |-> guest, title |-> title, numbers_ok |-> numbers_ok]

ParsedNone == [kind |-> "None"]

ParseRaised == [kind |-> "raised"]

\* lines 172-186: frontmatter.get on a value that is no mapping raises
\* AttributeError, int() of a value that is no number raises ValueError
EpisodeData(slug, frontmatter, transcript_raw, turns) ==
    IF frontmatter.kind # "mapping" \/ ~frontmatter.numbers_ok
    THEN ParseRaised
    ELSE [kind |-> "episode",
          slug |-> slug,
          title |-> frontmatter.title,
          guest |-> frontmatter.guest,
          transcript_raw |-> transcript_raw,
          turns |-> turns,
          chunks |-> ChunksOfTurns(turns)]

\* line 89
NoFrontmatter(parts) == Len(parts) < 3

parse_transcript_file(doc) ==
    IF ~doc.readable THEN ParsedNone
    ELSE LET parts == Split(doc.text, Delimiter, 2)
         IN  IF NoFrontmatter(parts) THEN ParsedNone
             ELSE IF doc.yaml.kind = "YAMLError" THEN ParsedNone
             ELSE LET transcript_raw == TranscriptRaw(Strip(parts[3], Spaces))
                      matches == FindIter(transcript_raw, 1)
                      turns == Turns(transcript_raw, matches, 1, Unknown)
                  IN  EpisodeData(doc.slug, doc.yaml, transcript_raw, turns)

(***************************************************************************)
(* Documents given to parse_transcript_file                                *)
(***************************************************************************)
MaxDocLen == 6

MaxTurnPieces == 4

MaxSentences == 4

AlAndB == <<"A", "l", " ", "a", "n", "d", " ", "B">>

GoodYaml == YamlMapping(AlAndB, "t1", TRUE)

YamlOutcomes == {YamlError, YamlNoMapping, GoodYaml, YamlMapping(AlAndB, "t1", FALSE)}

Document(text, yaml) == [readable |-> TRUE, slug |-> "ep", text |-> text, yaml |-> yaml]

\* "---\n---\n": an empty metadata block between the two delimiters
FrontMatter == <<"-", "-", "-", "\n", "-", "-", "-", "\n">>

NamedMarker == <<"A", "l", " ", "(", "0", ":", "0", "0", ":", "0", "1", ")", ":", " ">>

NamelessMarker == <<"(", "0", ":", "0", "0", ":", "0", "5", ")", ":", " ">>

TurnPieces ==
    { NamedMarker, NamelessMarker, <<"\n">>, <<" ">>, <<"H", "i", " ", "y", "o", "u">>,
      <<"O", "k", ",", " ", "s", "o", ".">>, <<"B", "o", " ">> }

SentencePieces ==
    { <<"<w150>", ".", " ">>, <<"<w250>", "!", "\n">>, <<"<w300>", ".", " ", " ">>,
      <<"<w450>", "?", " ">>, <<"<w601>", ".", " ">>, <<"<w150>", " ">>,
      <<"<w300>", ",", " ">>, <<"\n">> \o NamelessMarker }

\* "---\n---\n## Transcript\nAlice (00:01:15): Hello. This is a test."
AliceText ==
    FrontMatter \o Heading \o
    <<"\n", "A", "l", "i", "c", "e", " ", "(", "0", "0", ":", "0", "1", ":", "1", "5", ")", ":",
      " ", "H", "e", "l", "l", "o", ".", " ", "T", "h", "i", "s", " ", "i", "s", " ", "a", " ",
      "t", "e", "s", "t", ".">>

DelimiterDocs ==
    {Document(t, y) : t \in SeqsUpTo({"-", "x", "\n"}, MaxDocLen), y \in YamlOutcomes}

SegmenterDocs ==
    {Document(FrontMatter \o t, GoodYaml) : t \in Concats(TurnPieces, MaxTurnPieces)}

PackerDocs ==
    {Document(FrontMatter \o NamedMarker \o t, GoodYaml) :
        t \in Concats(SentencePieces, MaxSentences)}

ExampleDocs ==
    {Document(AliceText, y) : y \in YamlOutcomes}
    \cup {[readable |-> FALSE, slug |-> "ep", text |-> <<>>, yaml |-> GoodYaml]}

\* parse_transcript_file is called with document doc
ParseCalled(doc) ==
    /\ call = [fn |-> "parse_transcript_file", arg |-> doc, done |-> FALSE,
                ret |-> ParsedNone]
    /\ IngesterIdle

InitParse ==
    \/ \E doc \in DelimiterDocs : ParseCalled(doc)
    \/ \E doc \in SegmenterDocs : ParseCalled(doc)
    \/ \E doc \in PackerDocs : ParseCalled(doc)
    \/ \E doc \in ExampleDocs : ParseCalled(doc)

CallParseTranscriptFile ==
    /\ call.fn = "parse_transcript_file"
    /\ ~call.done
    /\ call' = [call EXCEPT !.done = TRUE, !.ret = parse_transcript_file(call.arg)]
    /\ UNCHANGED ingesterVars

NextParse == CallParseTranscriptFile

SpecParse == InitParse /\ [][NextParse]_vars

ParseDone == call.fn = "parse_transcript_file" /\ call.done

\* the number of places of text where the delimiter "---" occurs
Occurrences(text, p) == Cardinality({i \in 1..Len(text) : StartsWithAt(text, i, p)})

\* C8: a document text with fewer than two occurrences of "---" gives None
\* and no exception.
C8_NoFrontmatterGivesNone ==
    (ParseDone /\ Occurrences(call.arg.text, <<"-", "-", "-">>) < 2) =>
        call.ret = ParsedNone

\* a readable document with good metadata values and one "---" only
C8_Witness ==
    /\ ParseDone
    /\ Occurrences(call.arg.text, <<"-", "-", "-">>) = 1
    /\ call.arg.readable
    /\ call.arg.yaml = GoodYaml
    /\ call.ret = ParsedNone

(***************************************************************************)
(* Reference notions for the claims about the packer and the segmenter     *)
(***************************************************************************)
\* the positions where a word of text begins
WordStarts(text) ==
    {i \in 1..Len(text) : ~IsSpace(text[i]) /\ (i = 1 \/ IsSpace(text[i - 1]))}

RECURSIVE SumOver(_, _)
SumOver(S, f) ==
    IF S = {} THEN 0
    ELSE LET x == CHOOSE x \in S : TRUE IN f[x] + SumOver(S \ {x}, f)

\* the whitespace-split word count of text
WordCount(text) ==
    Cardinality(WordStarts(text))
    + SumOver({i \in 1..Len(text) : text[i] \in Fillers},
              [i \in 1..Len(text) |-> IF text[i] \in Fillers THEN FillerWords(text[i]) - 1 ELSE 0])

\* the words of text in order, each the run of tokens between whitespace
WordAt(text, i) ==
    LET stop == IF \E q \in i..Len(text) : IsSpace(text[q])
                THEN (CHOOSE q \in i..Len(text) :
                          IsSpace(text[q]) /\ \A r \in i..(q - 1) : ~IsSpace(text[r])) - 1
                ELSE Len(text)
    IN  SubSeq(text, i, stop)

RECURSIVE WordsIn(_, _)
WordsIn(text, starts) ==
    IF starts = {} THEN <<>>
    ELSE LET i == CHOOSE i \in starts : \A j \in starts : i =< j
         IN  <<WordAt(text, i)>> \o WordsIn(text, starts \ {i})

Words(text) == WordsIn(text, WordStarts(text))

\* text holds a sentence boundary: . ! or ? followed by whitespace
HasSentenceBoundary(text) ==
    \E i \in 2..Len(text) : IsSpace(text[i]) /\ text[i - 1] \in SentenceEnd

\* seconds of a timestamp h:mm:ss or hh:mm:ss, read digit by digit from the right
SecondsOf(ts) ==
    LET n == Len(ts)
        d(i) == DigitVal[ts[i]]
        hours == IF n = 8 THEN 10 * d(1) + d(2) ELSE d(1)
    IN  hours * 3600 + (10 * d(n - 4) + d(n - 3)) * 60 + 10 * d(n - 1) + d(n)

ParsedEpisode == ParseDone /\ call.ret.kind = "episode"

ContentsOf(chunks) == [i \in 1..Len(chunks) |-> chunks[i].content]

\* C1: the chunks of a turn of more than CHUNK_MAX_WORDS words, joined in
\* order, hold exactly the words of the turn in the same order, and a chunk
\* of more than 600 words is a single sentence.
C1_SplitIsLossless ==
    ParsedEpisode =>
        \A k \in 1..Len(call.ret.turns) :
            LET turn == call.ret.turns[k]
            IN  WordCount(turn.content) > 600 =>
                  /\ Words(JoinSpace(ContentsOf(turn.chunks))) = Words(turn.content)
                  /\ \A c \in 1..Len(turn.chunks) :
                        (turn.chunks[c].word_count > 600
                           \/ WordCount(turn.chunks[c].content) > 600)
                        => ~HasSentenceBoundary(turn.chunks[c].content)

\* a split turn with a chunk of several sentences and a chunk that is one
\* sentence of more than 600 words
C1_Witness ==
    /\ ParsedEpisode
    /\ \E k \in 1..Len(call.ret.turns) :
          LET turn == call.ret.turns[k]
          IN  /\ WordCount(turn.content) > 600
              /\ Len(turn.chunks) >= 2
              /\ \E c \in 1..Len(turn.chunks) : HasSentenceBoundary(turn.chunks[c].content)
              /\ \E c \in 1..Len(turn.chunks) : turn.chunks[c].word_count > 600

\* C2: a turn with non-empty content of at most CHUNK_MAX_WORDS words gives
\* exactly one chunk: its content unchanged, its word count the
\* whitespace-split count, its speaker and timestamp those of the turn.
C2_SmallTurnIsOneChunk ==
    ParsedEpisode =>
        \A k \in 1..Len(call.ret.turns) :
            LET turn == call.ret.turns[k]
            IN  (turn.content # <<>> /\ WordCount(turn.content) =< 600) =>
                  turn.chunks = <<[speaker |-> turn.speaker,
                                   timestamp_start |-> turn.timestamp,
                                   timestamp_seconds |-> SecondsOf(turn.timestamp),
                                   content |-> turn.content,
                                   word_count |-> WordCount(turn.content)]>>

\* the documented example, and a turn of 401..600 words in two sentences
C2_Witness ==
    /\ ParsedEpisode
    /\ \/ /\ call.arg.text = AliceText
          /\ call.ret.chunks =
               <<[speaker |-> <<"A", "l", "i", "c", "e">>,
                  timestamp_start |-> <<"0", "0", ":", "0", "1", ":", "1", "5">>,
                  timestamp_seconds |-> 75,
                  content |-> <<"H", "e", "l", "l", "o", ".", " ", "T", "h", "i", "s", " ",
                                "i", "s", " ", "a", " ", "t", "e", "s", "t", ".">>,
                  word_count |-> 5]>>
       \/ \E k \in 1..Len(call.ret.turns) :
             /\ WordCount(call.ret.turns[k].content) > 400
             /\ WordCount(call.ret.turns[k].content) =< 600
             /\ HasSentenceBoundary(call.ret.turns[k].content)
             /\ Len(call.ret.turns[k].chunks) = 1

\* C9: a marker that stands at the start of its line has no leading name.  The
\* turn of such a marker takes the speaker of the turn before it, and
\* "Unknown" when it is the first turn and the transcript begins with it: the
\* text between the marker before and this one is content, never a name.
C9_NamelessMarkerInherits ==
    ParsedEpisode =>
        \A k \in 1..Len(call.ret.turns) :
            LET turn == call.ret.turns[k]
            IN  /\ (k = 1 /\ turn.marker = 1) => turn.speaker = Unknown
                /\ (k > 1 /\ AtLineStart(call.ret.transcript_raw, turn.marker)) =>
                       turn.speaker = call.ret.turns[k - 1].speaker

(***************************************************************************)
(* slugify                                                                 *)
(***************************************************************************)
UpperSeq == <<"A", "B", "C", "D", "E", "F", "G", "H", "I", "J", "K", "L", "M",
              "N", "O", "P", "Q", "R", "S", "T", "U", "V", "W", "X", "Y", "Z">>

LowerSeq == <<"a", "b", "c", "d", "e", "f", "g", "h", "i", "j", "k", "l", "m",
              "n", "o", "p", "q", "r", "s", "t", "u", "v", "w", "x", "y", "z">>

\* str.lower() of one character
LowerChar(c) ==
    IF c \in Upper THEN LowerSeq[CHOOSE k \in 1..26 : UpperSeq[k] = c] ELSE c

\* re.sub(r"[^a-z0-9\s-]", "", slug)
KeptInSlug(c) == c \in Lower \cup Digits \cup Spaces \cup {"-"}

\* re.sub(r"[\s]+", "-", slug): every run of whitespace becomes one dash
RECURSIVE DashSpaces(_)
DashSpaces(t) ==
    IF t = <<>> THEN <<>>
    ELSE IF IsSpace(Head(t)) THEN <<"-">> \o DashSpaces(LStrip(t, Spaces))
    ELSE <<Head(t)>> \o DashSpaces(Tail(t))

slugify(name) ==
    LET lowered == [k \in 1..Len(name) |-> LowerChar(name[k])]
    IN  Strip(DashSpaces(SelectSeq(lowered, KeptInSlug)), {"-"})

(***************************************************************************)
(* The relational store: table(...).upsert(row, on_conflict=...).execute() *)
(***************************************************************************)
SameKey(r1, r2, on_conflict) == \A f \in on_conflict : r1[f] = r2[f]

Conflicts(table, row, on_conflict) ==
    {k \in 1..Len(table) : SameKey(table[k], row, on_conflict)}

\* a store that inserts without looking at on_conflict
UpsertAlwaysInserts(table, row, on_conflict, id) ==
    Append(table, [row EXCEPT !.id = id])

\* a store that empties the table before it writes the row
UpsertIntoEmptied(table, row, on_conflict, id) == <<[row EXCEPT !.id = id]>>

\* the table after the upsert: the row with the same natural key is
\* overwritten and keeps its identifier, else the row is inserted with id
Upsert(table, row, on_conflict, id) ==
    IF Conflicts(table, row, on_conflict) # {}
    THEN LET k == CHOOSE k \in Conflicts(table, row, on_conflict) : TRUE
         IN  [table EXCEPT ![k] = [row EXCEPT !.id = table[k].id]]
    ELSE Append(table, [row EXCEPT !.id = id])

\* result.data[0]["id"] after Upsert
UpsertedId(table, row, on_conflict, id) ==
    LET after == Upsert(table, row, on_conflict, id)
    IN  after[CHOOSE k \in 1..Len(after) : SameKey(after[k], row, on_conflict)].id

Inserted(table, row, on_conflict) == Conflicts(table, row, on_conflict) = {}

\* genai.embed_content(...)["embedding"]: a vector that depends on the text
Embedding(text) == [of |-> text]

batch_size == 10

DEFAULT_LIMIT == 10

\* the index counted inside the batch only
ChunkIndexInBatch(bi, bj) == bj

\* the index counted from one
ChunkIndexFromOne(bi, bj) == bi + bj + 1

\* line 320
ChunkIndex(bi, bj) == bi + bj

\* line 312: chunks[i:i + batch_size]
Batch(chunks, bi) ==
    SubSeq(chunks, bi + 1, IF bi + batch_size < Len(chunks) THEN bi + batch_size
                           ELSE Len(chunks))

\* lines 355-358: sorted directories, cut at limit
EpisodeDirs(all, limit) ==
    IF limit # 0 /\ limit < Len(all) THEN SubSeq(all, 1, limit) ELSE all

episode_dirs == EpisodeDirs(docs, DEFAULT_LIMIT)

(***************************************************************************)
(* The document sets of an ingestion run                                   *)
(***************************************************************************)
MaxDocs == 2

MaxChunks == 12

MaxFailures == 1

RECURSIVE ShortTurns(_)
ShortTurns(n) ==
    IF n = 0 THEN <<>> ELSE ShortTurns(n - 1) \o NamelessMarker \o <<LowerSeq[n], "\n">>

DirKinds == {"two", "one", "noguest", "none", "raises", "missing"}

TranscriptOf(kind, name) ==
    CASE kind = "two" ->
           [readable |-> TRUE, slug |-> name, yaml |-> GoodYaml,
            text |-> FrontMatter \o NamedMarker \o <<"x", "\n">> \o NamelessMarker \o <<"y">>]
      [] kind = "one" ->
           [readable |-> TRUE, slug |-> name, yaml |-> YamlMapping(<<"a", "l">>, "t2", TRUE),
            text |-> FrontMatter \o NamedMarker \o <<"z">>]
      [] kind = "noguest" ->
           [readable |-> TRUE, slug |-> name, yaml |-> YamlMapping(<<>>, "t3", TRUE),
            text |-> FrontMatter \o <<"x">>]
      [] kind = "many" ->
           [readable |-> TRUE, slug |-> name, yaml |-> YamlMapping(<<"B">>, "t4", TRUE),
            text |-> FrontMatter \o ShortTurns(MaxChunks)]
      [] kind = "none" ->
           [readable |-> TRUE, slug |-> name, yaml |-> GoodYaml, text |-> <<"x">>]
      [] kind = "raises" ->
           [readable |-> TRUE, slug |-> name, yaml |-> YamlNoMapping,
            text |-> FrontMatter \o NamedMarker \o <<"x">>]
      [] kind = "missing" ->
           [readable |-> FALSE, slug |-> name, yaml |-> GoodYaml, text |-> <<>>]

DirNames == <<"e1", "e2", "e3", "e4", "e5">>

\* an episode directory: its name and which transcript.md it holds
EpisodeDir(kind, name) == [name |-> name, kind |-> kind]

\* line 366: transcript_path.exists()
HasTranscript(d) == d.kind # "missing"

\* line 364: the file at transcript_path
TranscriptPath(d) == TranscriptOf(d.kind, d.name)

\* a transcript.md edited between two runs: turns and guests are taken away
Shortened(kind) ==
    CASE kind = "many" -> "two"
      [] kind = "two" -> "one"
      [] OTHER -> kind

Edited(dirs) == [k \in 1..Len(dirs) |-> EpisodeDir(Shortened(dirs[k].kind), dirs[k].name)]

DocSets ==
    {<<EpisodeDir("many", DirNames[1])>>}
    \cup UNION {{[k \in 1..n |-> EpisodeDir(kinds[k], DirNames[k])] :
                    kinds \in [1..n -> DirKinds]} : n \in 1..MaxDocs}

(***************************************************************************)
(* TranscriptIngester: ingest_all, ingest_episode and the upserts          *)
(***************************************************************************)
Init ==
    /\ call = NoCall
    /\ docs \in DocSets
    /\ run = 1 /\ pc = "loop" /\ dir = 1
    /\ episode = [kind |-> "None"]
    /\ guest_names = <<>> /\ guest_ids = <<>> /\ linked = 0 /\ episode_id = 0
    /\ batch_i = 0 /\ embeddings = <<>> /\ batch_j = 0
    /\ guest_cache = <<>> /\ guest_writes = <<>>
    /\ guests = <<>> /\ episodes = <<>> /\ episode_guests = <<>> /\ transcript_chunks = <<>>
    /\ next_id = 1 /\ failures = 0 /\ outcome = <<>> /\ written = <<>>
    /\ first_run_rows = NoRows

storeVars == <<guests, episodes, episode_guests, transcript_chunks, next_id>>

localVars == <<episode, guest_names, guest_ids, linked, episode_id, batch_i, embeddings, batch_j>>

AtLoopBody == pc = "loop" /\ dir =< Len(episode_dirs)

\* lines 366-368
SkipMissing ==
    /\ AtLoopBody
    /\ ~HasTranscript(episode_dirs[dir])
    /\ dir' = dir + 1
    /\ outcome' = Append(outcome, "missing")
    /\ UNCHANGED <<call, docs, run, pc, localVars, guest_cache, guest_writes, storeVars, failures,
                   written, first_run_rows>>

\* line 370: episode = parse_transcript_file(transcript_path)
ParseTranscript ==
    /\ AtLoopBody
    /\ HasTranscript(episode_dirs[dir])
    /\ episode' = parse_transcript_file(TranscriptPath(episode_dirs[dir]))
    /\ pc' = "parsed"
    /\ UNCHANGED <<call, docs, run, dir, guest_names, guest_ids, linked, episode_id,
                   batch_i, embeddings, batch_j, guest_cache, guest_writes, storeVars, failures,
                   outcome, written, first_run_rows>>

\* line 371 with parse_transcript_file having returned None
ParseGivesNone ==
    /\ pc = "parsed"
    /\ episode.kind = "None"
    /\ pc' = "loop"
    /\ dir' = dir + 1
    /\ outcome' = Append(outcome, "skipped")
    /\ UNCHANGED <<call, docs, run, localVars, guest_cache, guest_writes, storeVars, failures,
                   written, first_run_rows>>

\* line 370 with parse_transcript_file raising: the call stands outside the
\* try of lines 372-376, the exception leaves ingest_all
ParseRaises ==
    /\ pc = "parsed"
    /\ episode.kind = "raised"
    /\ pc' = "crashed"
    /\ outcome' = Append(outcome, "parse_raised")
    /\ UNCHANGED <<call, docs, run, dir, localVars, guest_cache, guest_writes, storeVars, failures,
                   written, first_run_rows>>

\* lines 371-373 and 337: ingest_episode begins
BeginEpisode ==
    /\ pc = "parsed"
    /\ episode.kind = "episode"
    /\ guest_names' = parse_guest_names(episode.guest)
    /\ pc' = IF guest_names' = <<>> THEN "upsert_episode" ELSE "upsert_guest"
    /\ guest_ids' = <<>> /\ linked' = 0 /\ episode_id' = 0
    /\ batch_i' = 0 /\ embeddings' = <<>> /\ batch_j' = 0
    /\ written' = <<>>
    /\ UNCHANGED <<call, docs, run, dir, episode, guest_cache, guest_writes, storeVars, failures, outcome,
                   first_run_rows>>

\* a cache that never takes an entry
CacheNotFilled(cache, slug, guest_id) == cache

\* line 260: self.guest_cache[slug] = guest_id
CacheAfter(cache, slug, guest_id) == (slug :> guest_id) @@ cache

AfterGuest(ids) == IF Len(ids) = Len(guest_names) THEN "upsert_episode" ELSE "upsert_guest"

\* lines 248-251: the slug is in the cache
UpsertGuestCached ==
    /\ pc = "upsert_guest"
    /\ LET slug == slugify(guest_names[Len(guest_ids) + 1])
       IN  /\ slug \in DOMAIN guest_cache
           /\ guest_ids' = Append(guest_ids, guest_cache[slug])
           /\ pc' = AfterGuest(Append(guest_ids, guest_cache[slug]))
    /\ UNCHANGED <<call, docs, run, dir, episode, guest_names, linked, episode_id, batch_i,
                   embeddings, batch_j, guest_cache, guest_writes, storeVars, failures, outcome, written,
                   first_run_rows>>

\* lines 248-261: the slug is not in the cache
UpsertGuestStore ==
    /\ pc = "upsert_guest"
    /\ LET name == guest_names[Len(guest_ids) + 1]
           slug == slugify(name)
           row == [id |-> 0, name |-> name, slug |-> slug]
           guest_id == UpsertedId(guests, row, {"slug"}, next_id)
       IN  /\ slug \notin DOMAIN guest_cache
           /\ guests' = Upsert(guests, row, {"slug"}, next_id)
           /\ next_id' = IF Inserted(guests, row, {"slug"}) THEN next_id + 1 ELSE next_id
           /\ guest_cache' = CacheAfter(guest_cache, slug, guest_id)
           /\ guest_writes' = Append(guest_writes, slug)
           /\ guest_ids' = Append(guest_ids, guest_id)
           /\ pc' = AfterGuest(Append(guest_ids, guest_id))
    /\ UNCHANGED <<call, docs, run, dir, episode, guest_names, linked, episode_id, batch_i,
                   embeddings, batch_j, episodes, episode_guests, transcript_chunks,
                   failures, outcome, written, first_run_rows>>

\* ingest_episode returns: back at the head of the loop of ingest_all
EpisodeIngested ==
    /\ pc' = "loop"
    /\ dir' = dir + 1
    /\ outcome' = Append(outcome, "ingested")

\* lines 306-311: upsert_chunks is entered
EnterUpsertChunks ==
    IF episode.chunks = <<>>
    THEN EpisodeIngested
    ELSE pc' = "get_embeddings_batch" /\ UNCHANGED <<dir, outcome>>

\* lines 263-287, then line 344 or 347
UpsertEpisode ==
    /\ pc = "upsert_episode"
    /\ LET row == [id |-> 0, slug |-> episode.slug, title |-> episode.title,
                   transcript_word_count |-> count_words(episode.transcript_raw)]
       IN  /\ episodes' = Upsert(episodes, row, {"slug"}, next_id)
           /\ episode_id' = UpsertedId(episodes, row, {"slug"}, next_id)
           /\ next_id' = IF Inserted(episodes, row, {"slug"}) THEN next_id + 1 ELSE next_id
    /\ IF guest_ids # <<>>
       THEN pc' = "link_episode_guests" /\ UNCHANGED <<dir, outcome>>
       ELSE EnterUpsertChunks
    /\ UNCHANGED <<call, docs, run, episode, guest_names, guest_ids, linked, batch_i,
                   embeddings, batch_j, guest_cache, guest_writes, guests, episode_guests,
                   transcript_chunks, failures, written, first_run_rows>>

\* lines 294-299: one pass of the loop of link_episode_guests
LinkEpisodeGuest ==
    /\ pc = "link_episode_guests"
    /\ LET row == [id |-> 0, episode_id |-> episode_id, guest_id |-> guest_ids[linked + 1]]
       IN  /\ episode_guests' = Upsert(episode_guests, row, {"episode_id", "guest_id"}, next_id)
           /\ next_id' = IF Inserted(episode_guests, row, {"episode_id", "guest_id"})
                         THEN next_id + 1 ELSE next_id
    /\ linked' = linked + 1
    /\ IF linked + 1 = Len(guest_ids)
       THEN EnterUpsertChunks
       ELSE UNCHANGED <<pc, dir, outcome>>
    /\ UNCHANGED <<call, docs, run, episode, guest_names, guest_ids, episode_id, batch_i,
                   embeddings, batch_j, guest_cache, guest_writes, guests, episodes, transcript_chunks,
                   failures, written, first_run_rows>>

\* lines 238-240: one embedding request of get_embeddings_batch
GetEmbedding ==
    /\ pc = "get_embeddings_batch"
    /\ LET batch == Batch(episode.chunks, batch_i)
           got == Append(embeddings, Embedding(batch[Len(embeddings) + 1].content))
       IN  /\ embeddings' = got
           /\ pc' = IF Len(got) = Len(batch) THEN "upsert_chunks" ELSE "get_embeddings_batch"
    /\ UNCHANGED <<call, docs, run, dir, episode, guest_names, guest_ids, linked, episode_id,
                   batch_i, batch_j, guest_cache, guest_writes, storeVars, failures, outcome, written,
                   first_run_rows>>

\* lines 317-332: one chunk written; behind the last chunk of the batch the
\* next batch begins, behind the last batch upsert_chunks returns
UpsertChunk ==
    /\ pc = "upsert_chunks"
    /\ LET batch == Batch(episode.chunks, batch_i)
           chunk == batch[batch_j + 1]
           row == [id |-> 0,
                   episode_id |-> episode_id,
                   chunk_index |-> ChunkIndex(batch_i, batch_j),
                   speaker |-> chunk.speaker,
                   timestamp_start |-> chunk.timestamp_start,
                   timestamp_seconds |-> chunk.timestamp_seconds,
                   content |-> chunk.content,
                   word_count |-> chunk.word_count,
                   embedding |-> embeddings[batch_j + 1]]
       IN  /\ transcript_chunks' =
                 Upsert(transcript_chunks, row, {"episode_id", "chunk_index"}, next_id)
           /\ next_id' = IF Inserted(transcript_chunks, row, {"episode_id", "chunk_index"})
                         THEN next_id + 1 ELSE next_id
           /\ written' = Append(written, ChunkIndex(batch_i, batch_j))
           /\ IF batch_j + 1 < Len(batch)
              THEN /\ batch_j' = batch_j + 1
                   /\ UNCHANGED <<pc, dir, outcome, batch_i, embeddings>>
              ELSE IF batch_i + batch_size < Len(episode.chunks)
                   THEN /\ batch_i' = batch_i + batch_size
                        /\ batch_j' = 0
                        /\ embeddings' = <<>>
                        /\ pc' = "get_embeddings_batch"
                        /\ UNCHANGED <<dir, outcome>>
                   ELSE /\ EpisodeIngested
                        /\ UNCHANGED <<batch_i, batch_j, embeddings>>
    /\ UNCHANGED <<call, docs, run, episode, guest_names, guest_ids, linked, episode_id,
                   guest_cache, guest_writes, guests, episodes, episode_guests, failures, first_run_rows>>

\* the positions at which the ingester waits for the store or the embedding
\* provider; a guest whose slug is cached takes no external call
InExternalCall ==
    \/ pc \in {"upsert_episode", "link_episode_guests", "get_embeddings_batch", "upsert_chunks"}
    \/ /\ pc = "upsert_guest"
       /\ slugify(guest_names[Len(guest_ids) + 1]) \notin DOMAIN guest_cache

\* an exception that leaves ingest_all
ErrorLeavesIngestAll(d) == [pc |-> "crashed", dir |-> d, outcome |-> "raised"]

\* lines 372-376: the exception of ingest_episode is caught and the loop goes on
ErrorCaught(d) == [pc |-> "loop", dir |-> d + 1, outcome |-> "failed"]

\* an external call raises inside ingest_episode
ExternalCallFails ==
    /\ InExternalCall
    /\ failures < MaxFailures
    /\ failures' = failures + 1
    /\ pc' = ErrorCaught(dir).pc
    /\ dir' = ErrorCaught(dir).dir
    /\ outcome' = Append(outcome, ErrorCaught(dir).outcome)
    /\ UNCHANGED <<call, docs, run, localVars, guest_cache, guest_writes, storeVars, written,
                   first_run_rows>>

RowCounts ==
    [guests |-> Len(guests), episodes |-> Len(episodes),
     episode_guests |-> Len(episode_guests), transcript_chunks |-> Len(transcript_chunks)]

\* line 363: the loop of ingest_all is over, ingest_all returns
IngestAllReturns ==
    /\ pc = "loop"
    /\ dir > Len(episode_dirs)
    /\ pc' = "done"
    /\ first_run_rows' = IF run = 1 THEN RowCounts ELSE first_run_rows
    /\ UNCHANGED <<call, docs, run, dir, localVars, guest_cache, guest_writes, storeVars, failures,
                   outcome, written>>

\* lines 386-387: main is started again on the same directories and the same
\* store, with a new TranscriptIngester and so an empty guest_cache
RunAgain ==
    /\ pc = "done"
    /\ run < 2
    /\ run' = run + 1
    /\ pc' = "loop"
    /\ dir' = 1
    /\ guest_cache' = <<>>
    /\ guest_writes' = <<>>
    /\ outcome' = <<>>
    /\ UNCHANGED <<call, docs, localVars, storeVars, failures, written, first_run_rows>>

\* lines 386-387: main is started a third time, with a new TranscriptIngester,
\* after transcripts of the directories have been edited
RunAfterEdit ==
    /\ pc = "done"
    /\ run = 2
    /\ Edited(docs) # docs
    /\ docs' = Edited(docs)
    /\ run' = run + 1
    /\ pc' = "loop"
    /\ dir' = 1
    /\ guest_cache' = <<>>
    /\ guest_writes' = <<>>
    /\ outcome' = <<>>
    /\ UNCHANGED <<call, localVars, storeVars, failures, written, first_run_rows>>

Next ==
    \/ SkipMissing
    \/ ParseTranscript
    \/ ParseGivesNone
    \/ ParseRaises
    \/ BeginEpisode
    \/ UpsertGuestCached
    \/ UpsertGuestStore
    \/ UpsertEpisode
    \/ LinkEpisodeGuest
    \/ GetEmbedding
    \/ UpsertChunk
    \/ ExternalCallFails
    \/ IngestAllReturns
    \/ RunAgain
    \/ RunAfterEdit

Spec == Init /\ [][Next]_vars

(***************************************************************************)
(* Properties of the ingester                                              *)
(***************************************************************************)
\* ingest_episode has just returned for the episode held in `episode`
EpisodeJustIngested ==
    pc = "loop" /\ outcome # <<>> /\ outcome[Len(outcome)] = "ingested"

ZeroBased(n) == [k \in 1..n |-> k - 1]

RowsOf(table, on_conflict, row) == {k \in 1..Len(table) : SameKey(table[k], row, on_conflict)}

\* C3: the chunk_index values of one upsert_chunks call are written in the
\* order 0, 1, 2, ... at every moment of the call; when the call completes
\* for an episode of n chunks they are exactly 0..n-1, and the k-th chunk in
\* emission order is the one row of the episode stored under chunk_index k
\* (counted from zero), across the batches of batch_size.
C3_ChunkIndexContiguous ==
    /\ written = ZeroBased(Len(written))
    /\ EpisodeJustIngested =>
          LET n == Len(episode.chunks)
          IN  /\ written = ZeroBased(n)
              /\ \A k \in 1..n :
                    LET key == [episode_id |-> episode_id, chunk_index |-> k - 1]
                        rows == RowsOf(transcript_chunks, {"episode_id", "chunk_index"}, key)
                    IN  /\ Cardinality(rows) = 1
                        /\ \A r \in rows :
                              /\ transcript_chunks[r].content = episode.chunks[k].content
                              /\ transcript_chunks[r].speaker = episode.chunks[k].speaker

\* an episode of more chunks than one batch holds has been written to the end
C3_Witness ==
    /\ EpisodeJustIngested
    /\ Len(episode.chunks) > batch_size
    /\ Len(written) = Len(episode.chunks)

NoDuplicateKey(table, on_conflict) ==
    \A k1, k2 \in 1..Len(table) : SameKey(table[k1], table[k2], on_conflict) => k1 = k2

\* C4: while no external call has failed, the second run of ingest_all on the
\* same directories, with a new guest_cache, never changes the number of
\* rows of guests, episodes, episode_guests and transcript_chunks that the
\* first run left, and no table ever holds two rows of one natural key.
C4_RerunAddsNoRow ==
    /\ (run = 2 /\ failures = 0) => RowCounts = first_run_rows
    /\ NoDuplicateKey(guests, {"slug"})
    /\ NoDuplicateKey(episodes, {"slug"})
    /\ NoDuplicateKey(episode_guests, {"episode_id", "guest_id"})
    /\ NoDuplicateKey(transcript_chunks, {"episode_id", "chunk_index"})

\* the second run has returned and every table holds rows
C4_Witness ==
    /\ run = 2 /\ pc = "done" /\ failures = 0
    /\ Len(guests) > 1 /\ Len(episodes) > 1
    /\ Len(episode_guests) > 1 /\ Len(transcript_chunks) > 1
    /\ RowCounts = first_run_rows

\* C5: a failed external call of ingest_episode never makes ingest_all end
\* with an exception: the loop stands at the directory behind the failed
\* one, and when ingest_all returns every directory of the list has been
\* dealt with, the ones behind a failed episode included.
C5_FailureDoesNotHaltBatch ==
    /\ pc = "crashed" => outcome[Len(outcome)] = "parse_raised"
    /\ pc = "loop" => dir = Len(outcome) + 1 /\ dir =< Len(episode_dirs) + 1
    /\ pc = "done" => Len(outcome) = Len(episode_dirs)

\* ingest_all has returned; an episode failed and the one behind it was ingested
C5_Witness ==
    /\ pc = "done"
    /\ \E k \in 1..Len(outcome) - 1 : outcome[k] = "failed" /\ outcome[k + 1] = "ingested"

\* C6: parse_transcript_file never raises for a document whose front matter
\* is missing or unusable, and ingest_all never ends with an exception.
C6_ParseFailureIsSkipped ==
    /\ pc = "parsed" => episode.kind # "raised"
    /\ pc # "crashed"

(***************************************************************************)
(* mcp_server/server.py: call_tool                                         *)
(***************************************************************************)
\* a value that may be None, or a key that may be missing from arguments
Null == [null |-> TRUE, v |-> <<>>]

Some(v) == [null |-> FALSE, v |-> v]

\* dict.get(key, default) for a key that may be missing
GetOr(x, default) == IF x.null THEN default ELSE x.v

\* str.lower()
LowerStr(str) == [k \in 1..Len(str) |-> LowerChar(str[k])]

\* a in b, for strings
Contains(a, b) == \E i \in 1..Len(b) + 1 : StartsWithAt(b, i, a)

\* line 64 behind the RPC search_chunks: the store returns at most
\* match_count of the rows that match, or no data at all
search_similar_chunks(matches, limit) ==
    IF matches.null THEN <<>>
    ELSE IF limit < Len(matches.v)
         THEN SubSeq(matches.v, 1, IF limit > 0 THEN limit ELSE 0)
         ELSE matches.v

\* "\n\n".join(parts) and "\n\n---\n\n".join(parts)
RECURSIVE JoinWith(_, _)
JoinWith(parts, sep) ==
    IF parts = <<>> THEN <<>>
    ELSE IF Len(parts) = 1 THEN parts[1]
    ELSE parts[1] \o <<sep>> \o JoinWith(Tail(parts), sep)

\* the text of a name that may be None inside an f-string
NameText(n) == IF n.null THEN <<"None">> ELSE n.v

PreviewChars == 500

\* lines 235-237: one formatted search result
FormatResult(r) ==
    <<"**">> \o NameText(r.guest_name) \o <<"** in *">> \o r.episode_title
    \o <<"*:\n> ">>
    \o (IF Len(r.content) > PreviewChars
        THEN SubSeq(r.content, 1, PreviewChars) \o <<"...">> ELSE r.content)
    \o <<"\n(Similarity)">>

\* lines 254-257, 282-285, 305-308, 337-340
ExpertContext(results) ==
    JoinWith([k \in 1..Len(results) |->
                 <<"**">> \o NameText(results[k].guest_name) \o <<"** (">>
                 \o results[k].episode_title \o <<"):\n">> \o results[k].content],
             "\n\n")

\* lines 67-85: the text the model answers with
synthesize_with_llm(prompt, context) == <<"response.text">>

\* what call_tool returns: the text of the one TextContent, and the records
\* the operation held when it built its answer
ToolReturned(text, records) == [raised |-> FALSE, text |-> text, records |-> records]

\* lines 222-240
search_wisdom(a) ==
    LET results == search_similar_chunks(a.matches, GetOr(a.limit, 5))
    IN  IF results = <<>>
        THEN ToolReturned(<<"No relevant results found.">>, results)
        ELSE ToolReturned(JoinWith([k \in 1..Len(results) |-> FormatResult(results[k])],
                                   "\n\n---\n\n"), results)

\* lines 242-262
get_advice(a) ==
    LET results == search_similar_chunks(a.matches, 8)
    IN  IF results = <<>>
        THEN ToolReturned(<<"No relevant expert insights found for this challenge.">>, results)
        ELSE ToolReturned(synthesize_with_llm(a.query, ExpertContext(results)), results)

\* lines 273-276
ByExperts(results, experts) ==
    SelectSeq(results,
              LAMBDA r : \E e \in 1..Len(experts) :
                  Contains(LowerStr(experts[e]),
                           LowerStr(IF r.guest_name.null THEN <<>> ELSE r.guest_name.v)))

\* lines 264-291
compare_experts(a) ==
    LET experts == GetOr(a.experts, <<>>)
        found == search_similar_chunks(a.matches, 15)
        results == IF experts # <<>> THEN ByExperts(found, experts) ELSE found
    IN  IF results = <<>>
        THEN ToolReturned(<<"No relevant expert viewpoints found.">>, results)
        ELSE ToolReturned(synthesize_with_llm(a.query, ExpertContext(results)), results)

\* lines 293-323
generate_playbook(a) ==
    LET results == search_similar_chunks(a.matches, 10)
    IN  IF results = <<>>
        THEN ToolReturned(<<"No relevant expert insights found for this goal.">>, results)
        ELSE ToolReturned(synthesize_with_llm(a.query, ExpertContext(results)), results)

\* lines 325-351
find_metrics(a) ==
    LET results == search_similar_chunks(a.matches, 8)
    IN  IF results = <<>>
        THEN ToolReturned(<<"No relevant metrics or benchmarks found.">>, results)
        ELSE ToolReturned(synthesize_with_llm(a.query, ExpertContext(results)), results)

\* lines 360-362: the columns of the select
EpisodeColumns == {"title", "view_count", "duration_seconds"}

Select(table, columns) == [k \in 1..Len(table) |-> [f \in columns |-> table[k][f]]]

\* e.get("id") of a selected row
GetId(e) == IF "id" \in DOMAIN e THEN Some(e.id) ELSE Null

\* column ILIKE %pattern%
ILike(value, pattern) == Contains(LowerStr(pattern), LowerStr(value))

\* query.order(column, desc=True): the rows by falling value of the column
RECURSIVE OrderDesc(_, _)
OrderDesc(rows, column) ==
    IF rows = <<>> THEN <<>>
    ELSE LET top == CHOOSE k \in 1..Len(rows) :
                        \A l \in 1..Len(rows) :
                            \/ rows[l][column] < rows[k][column]
                            \/ rows[l][column] = rows[k][column] /\ k =< l
         IN  <<rows[top]>> \o
             OrderDesc(SubSeq(rows, 1, top - 1) \o SubSeq(rows, top + 1, Len(rows)), column)

Truthy(x) == ~x.null /\ x.v # <<>>

\* lines 360-374: the rows the episodes query gives
EpisodesQuery(a) ==
    LET searched == IF Truthy(a.search)
                    THEN SelectSeq(a.episodes, LAMBDA e : ILike(e.title, a.search.v))
                    ELSE a.episodes
        sorted == IF a.sort = "views" THEN OrderDesc(searched, "view_count")
                  ELSE IF a.sort = "duration" THEN OrderDesc(searched, "duration_seconds")
                  ELSE searched
        limit == GetOr(a.limit, 10)
        limited == IF limit < Len(sorted) THEN SubSeq(sorted, 1, limit) ELSE sorted
    IN  Select(limited, EpisodeColumns)

\* lines 380-386: the rows left by the guest filter
ByGuest(a, data) ==
    LET ids_of_guests == {a.guests[k].id :
                         k \in {l \in 1..Len(a.guests) : ILike(a.guests[l].name, a.guest.v)}}
        ids_of_episodes == {a.episode_guests[k].episode_id :
                           k \in {l \in 1..Len(a.episode_guests) :
                                     a.episode_guests[l].guest_id \in ids_of_guests}}
    IN  IF ids_of_guests = {} THEN data
        ELSE SelectSeq(data, LAMBDA e : ~GetId(e).null /\ GetId(e).v \in ids_of_episodes)

\* lines 390-395
FormatEpisode(e) == <<"**">> \o e.title \o <<"**\nDuration | Views | URL">>

\* lines 353-397
list_episodes(a) ==
    LET data == EpisodesQuery(a)
    IN  IF data = <<>>
        THEN ToolReturned(<<"No episodes found.">>, data)
        ELSE LET left == IF Truthy(a.guest) THEN ByGuest(a, data) ELSE data
             IN  ToolReturned(JoinWith([k \in 1..Len(left) |-> FormatEpisode(left[k])],
                                       "\n\n"), left)

\* line 399
unknown_tool(a) == ToolReturned(<<"Unknown tool: ">> \o <<a.name>>, <<>>)

\* Inputs of call_tool: the arguments of the call, the rows the search RPC
\* matches and the tables the episodes queries read
MaxMatches == 2

NullInt == [null |-> TRUE, v |-> 0]

ChunkMatches ==
    { [guest_name |-> Some(<<"A", "l">>), episode_title |-> <<"t1">>, content |-> <<"x">>],
      [guest_name |-> Some(<<"B">>), episode_title |-> <<"t2">>, content |-> <<"y">>],
      [guest_name |-> Null, episode_title |-> <<"t3">>, content |-> <<"z">>] }

MatchData == {Null} \cup {Some(m) : m \in SeqsUpTo(ChunkMatches, MaxMatches)}

LimitArgs == {NullInt, Some(0), Some(1)}

ExpertsArgs ==
    { Null, Some(<<>>), Some(<< <<"a", "l">> >>), Some(<< <<"Z">> >>),
      Some(<< <<"Z">>, <<"b">> >>) }

SearchToolNames ==
    {"search_wisdom", "get_advice", "compare_experts", "generate_playbook", "find_metrics"}

ToolNames == SearchToolNames \cup {"list_episodes"}

SearchToolInputs ==
    { [name |-> n, query |-> <<"q">>, limit |-> l, experts |-> e, guest |-> Null,
       search |-> Null, sort |-> "views", matches |-> m, episodes |-> <<>>,
       guests |-> <<>>, episode_guests |-> <<>>] :
         n \in SearchToolNames \cup {"no_such_tool"}, l \in LimitArgs, e \in ExpertsArgs,
         m \in MatchData }

EpisodeRows ==
    << [id |-> 1, title |-> <<"G", "o">>, view_count |-> 5, duration_seconds |-> 9],
       [id |-> 2, title |-> <<"u", "p">>, view_count |-> 7, duration_seconds |-> 3] >>

GuestRows == << [id |-> 10, name |-> <<"A", "l">>], [id |-> 11, name |-> <<"B">>] >>

LinkRows == << [episode_id |-> 1, guest_id |-> 10], [episode_id |-> 2, guest_id |-> 11] >>

Prefixes(rows) == {SubSeq(rows, 1, n) : n \in 0..Len(rows)}

ListEpisodesInputs ==
    { [name |-> "list_episodes", query |-> <<>>, limit |-> l, experts |-> Null, guest |-> g,
       search |-> s, sort |-> o, matches |-> Null, episodes |-> es,
       guests |-> gs, episode_guests |-> ls] :
         l \in {NullInt, Some(1)},
         g \in {Null, Some(<<>>), Some(<<"a">>), Some(<<"z">>)},
         s \in {Null, Some(<<"g">>), Some(<<"q">>)},
         o \in {"views", "duration", "recent"},
         es \in Prefixes(EpisodeRows), gs \in Prefixes(GuestRows), ls \in Prefixes(LinkRows) }

ToolInputs == SearchToolInputs \cup ListEpisodesInputs

InitTools ==
    \E a \in ToolInputs :
        /\ call = [fn |-> "call_tool", arg |-> a, done |-> FALSE,
                    ret |-> ToolReturned(<<>>, <<>>)]
        /\ IngesterIdle

ToolCalled(name) == call.fn = "call_tool" /\ ~call.done /\ call.arg.name = name

\* lines 222-240
CallSearchWisdom ==
    /\ ToolCalled("search_wisdom")
    /\ call' = [call EXCEPT !.done = TRUE, !.ret = search_wisdom(call.arg)]
    /\ UNCHANGED ingesterVars

\* lines 242-262
CallGetAdvice ==
    /\ ToolCalled("get_advice")
    /\ call' = [call EXCEPT !.done = TRUE, !.ret = get_advice(call.arg)]
    /\ UNCHANGED ingesterVars

\* lines 264-291
CallCompareExperts ==
    /\ ToolCalled("compare_experts")
    /\ call' = [call EXCEPT !.done = TRUE, !.ret = compare_experts(call.arg)]
    /\ UNCHANGED ingesterVars

\* lines 293-323
CallGeneratePlaybook ==
    /\ ToolCalled("generate_playbook")
    /\ call' = [call EXCEPT !.done = TRUE, !.ret = generate_playbook(call.arg)]
    /\ UNCHANGED ingesterVars

\* lines 325-351
CallFindMetrics ==
    /\ ToolCalled("find_metrics")
    /\ call' = [call EXCEPT !.done = TRUE, !.ret = find_metrics(call.arg)]
    /\ UNCHANGED ingesterVars

\* lines 353-397
CallListEpisodes ==
    /\ ToolCalled("list_episodes")
    /\ call' = [call EXCEPT !.done = TRUE, !.ret = list_episodes(call.arg)]
    /\ UNCHANGED ingesterVars

\* line 399
CallUnknownTool ==
    /\ call.fn = "call_tool" /\ ~call.done
    /\ call.arg.name \notin ToolNames
    /\ call' = [call EXCEPT !.done = TRUE, !.ret = unknown_tool(call.arg)]
    /\ UNCHANGED ingesterVars

NextTools ==
    \/ CallSearchWisdom
    \/ CallGetAdvice
    \/ CallCompareExperts
    \/ CallGeneratePlaybook
    \/ CallFindMetrics
    \/ CallListEpisodes
    \/ CallUnknownTool

SpecTools == InitTools /\ [][NextTools]_vars

ToolDone == call.fn = "call_tool" /\ call.done

EmptyResultMessages ==
    { <<"No relevant results found.">>,
      <<"No relevant expert insights found for this challenge.">>,
      <<"No relevant expert viewpoints found.">>,
      <<"No relevant expert insights found for this goal.">>,
      <<"No relevant metrics or benchmarks found.">>,
      <<"No episodes found.">> }

\* C11: a tool operation that is left with no record after its searching and
\* filtering returns one of the empty-result messages, a text that is not
\* empty, and does not raise.
C11_EmptyResultIsReported ==
    (ToolDone /\ call.arg.name \in ToolNames /\ call.ret.records = <<>>) =>
        /\ ~call.ret.raised
        /\ call.ret.text # <<>>
        /\ call.ret.text \in EmptyResultMessages

(***************************************************************************)
(* Further properties of the packer and the segmenter                      *)
(***************************************************************************)
\* the text up to its first sentence boundary
FirstSentence(text) ==
    IF HasSentenceBoundary(text)
    THEN LET i == CHOOSE i \in 2..Len(text) :
                      /\ IsSpace(text[i]) /\ text[i - 1] \in SentenceEnd
                      /\ \A j \in 2..(i - 1) : ~(IsSpace(text[j]) /\ text[j - 1] \in SentenceEnd)
         IN  SubSeq(text, 1, i - 1)
    ELSE text

SplitTurn(turn) == WordCount(turn.content) > 600

\* C12: among the chunks of a turn of more than CHUNK_MAX_WORDS words, none
\* is empty, every chunk of more than one sentence has at most
\* CHUNK_TARGET_WORDS words, and the words of a chunk plus the words of the
\* first sentence of the chunk behind it are more than CHUNK_TARGET_WORDS.
C12_GreedyFlushAtTarget ==
    ParsedEpisode =>
        \A k \in 1..Len(call.ret.turns) :
            LET turn == call.ret.turns[k]
                chunks == turn.chunks
            IN  SplitTurn(turn) =>
                  /\ \A c \in 1..Len(chunks) :
                        /\ chunks[c].content # <<>>
                        /\ WordCount(chunks[c].content) > 0
                        /\ HasSentenceBoundary(chunks[c].content)
                              => WordCount(chunks[c].content) =< 400
                  /\ \A c \in 1..(Len(chunks) - 1) :
                        WordCount(chunks[c].content)
                        + WordCount(FirstSentence(chunks[c + 1].content)) > 400

\* a split turn whose first chunk is two sentences of 400 words together,
\* followed by a further chunk
C12_Witness ==
    /\ ParsedEpisode
    /\ \E k \in 1..Len(call.ret.turns) :
          LET turn == call.ret.turns[k]
          IN  /\ SplitTurn(turn)
              /\ Len(turn.chunks) >= 2
              /\ HasSentenceBoundary(turn.chunks[1].content)
              /\ WordCount(turn.chunks[1].content) = 400

\* the text of transcript_raw between the "(" at position marker and the next ")"
TimestampAt(transcript_raw, marker) ==
    LET close == CHOOSE j \in (marker + 1)..Len(transcript_raw) :
                     /\ transcript_raw[j] = ")"
                     /\ \A q \in (marker + 1)..(j - 1) : transcript_raw[q] # ")"
    IN  SubSeq(transcript_raw, marker + 1, close - 1)

\* C14: every chunk of a turn, emitted whole or split, has the speaker of the
\* turn, the timestamp string that stands in the marker of the turn, and the
\* seconds of that timestamp; so all chunks of a split turn agree on them.
C14_ChunksInheritTurnFields ==
    ParsedEpisode =>
        \A k \in 1..Len(call.ret.turns) :
            LET turn == call.ret.turns[k]
            IN  /\ \A c \in 1..Len(turn.chunks) :
                      /\ turn.chunks[c].speaker = turn.speaker
                      /\ turn.chunks[c].timestamp_start
                            = TimestampAt(call.ret.transcript_raw, turn.marker)
                      /\ turn.chunks[c].timestamp_seconds
                            = SecondsOf(TimestampAt(call.ret.transcript_raw, turn.marker))
                /\ \A c, d \in 1..Len(turn.chunks) :
                      /\ turn.chunks[c].speaker = turn.chunks[d].speaker
                      /\ turn.chunks[c].timestamp_start = turn.chunks[d].timestamp_start
                      /\ turn.chunks[c].timestamp_seconds = turn.chunks[d].timestamp_seconds

\* a split turn of several chunks and a further turn with another timestamp
C14_Witness ==
    /\ ParsedEpisode
    /\ \E k, l \in 1..Len(call.ret.turns) :
          /\ SplitTurn(call.ret.turns[k])
          /\ Len(call.ret.turns[k].chunks) >= 2
          /\ call.ret.turns[k].chunks[1].timestamp_seconds > 0
          /\ call.ret.turns[l].chunks # <<>>
          /\ call.ret.turns[l].timestamp # call.ret.turns[k].timestamp

\* the number of chunks of the turns before turn k
RECURSIVE ChunksBefore(_, _)
ChunksBefore(turns, k) ==
    IF k =< 1 THEN 0 ELSE ChunksBefore(turns, k - 1) + Len(turns[k - 1].chunks)

HasText(content) == \E i \in 1..Len(content) : ~IsSpace(content[i])

\* C15: the turns stand in the order of their markers in the transcript; the
\* chunks of the episode are the chunks of the turns in that order; no chunk
\* has empty content; a turn without content gives no chunk and a turn with
\* content gives at least one.
C15_TurnsInOrderEmptyDropped ==
    ParsedEpisode =>
        LET turns == call.ret.turns
        IN  /\ \A k \in 1..(Len(turns) - 1) : turns[k].marker < turns[k + 1].marker
            /\ Len(call.ret.chunks) = ChunksBefore(turns, Len(turns) + 1)
            /\ \A k \in 1..Len(turns) :
                  /\ \A c \in 1..Len(turns[k].chunks) :
                        call.ret.chunks[ChunksBefore(turns, k) + c] = turns[k].chunks[c]
                  /\ HasText(turns[k].content) <=> Len(turns[k].chunks) >= 1
            /\ \A c \in 1..Len(call.ret.chunks) :
                  /\ call.ret.chunks[c].content # <<>>
                  /\ HasText(call.ret.chunks[c].content)

\* a turn without content between two turns with content
C15_Witness ==
    /\ ParsedEpisode
    /\ \E k1, k2, k3 \in 1..Len(call.ret.turns) :
          /\ k1 < k2 /\ k2 < k3
          /\ HasText(call.ret.turns[k1].content)
          /\ call.ret.turns[k2].content = <<>>
          /\ HasText(call.ret.turns[k3].content)
          /\ Len(call.ret.chunks) >= 2

(***************************************************************************)
(* Further properties of the ingester                                      *)
(***************************************************************************)
Range(seq) == {seq[k] : k \in 1..Len(seq)}

NoRepeat(seq) == \A k1, k2 \in 1..Len(seq) : seq[k1] = seq[k2] => k1 = k2

\* the cache of an ingester only gains entries
CacheKept ==
    \A slug \in DOMAIN guest_cache :
        slug \in DOMAIN guest_cache' /\ guest_cache'[slug] = guest_cache[slug]

\* upsert_guest returns for a name whose slug is in the cache
CachedGuestReturns ==
    /\ pc = "upsert_guest"
    /\ Len(guest_ids') = Len(guest_ids) + 1
    /\ slugify(guest_names[Len(guest_ids) + 1]) \in DOMAIN guest_cache

\* C13: one ingester writes every slug to table guests at most once, and the
\* cached slugs are the written ones; an upsert_guest call for a cached slug
\* returns the cached identifier and leaves the store as it is; an entry of
\* the cache is never changed or removed while the ingester lives.
C13_GuestCacheDeduplicates ==
    /\ [](NoRepeat(guest_writes) /\ DOMAIN guest_cache = Range(guest_writes))
    /\ [][/\ run' = run => CacheKept
          /\ CachedGuestReturns =>
                /\ guest_ids' = Append(guest_ids,
                                       guest_cache[slugify(guest_names[Len(guest_ids) + 1])])
                /\ UNCHANGED <<guests, episodes, episode_guests, transcript_chunks, next_id>>
                /\ UNCHANGED <<guest_cache, guest_writes>>]_vars

\* behind an episode that wrote two guests, the one guest of the second
\* episode has been resolved without a further write
C13_Witness ==
    /\ dir = 2 /\ outcome = <<"ingested">>
    /\ pc = "upsert_episode"
    /\ Len(guest_names) = 1 /\ Len(guest_ids) = 1
    /\ Len(guest_writes) = 2
    /\ guest_ids[1] = guest_cache[slugify(guest_names[1])]

\* the chunk_index values table transcript_chunks holds for episode id
PersistedIndices(id) ==
    {transcript_chunks[k].chunk_index :
        k \in {l \in 1..Len(transcript_chunks) : transcript_chunks[l].episode_id = id}}

InUpsertChunks == pc \in {"get_embeddings_batch", "upsert_chunks"}

\* an external call of upsert_chunks has just failed
UpsertChunksFailed ==
    /\ pc = "loop" /\ outcome # <<>> /\ outcome[Len(outcome)] = "failed"
    /\ episode.kind = "episode" /\ episode_id # 0 /\ linked = Len(guest_ids)

\* C16: in every state, for every episode of the store, the chunk_index
\* values persisted are 0..k-1 for some k; while upsert_chunks runs for an
\* episode that had no chunk rows, and in the state a failed embedding
\* request or chunk upsert leaves, k is the number of chunks written so far
\* and at most the number of chunks of the episode.
C16_PersistedIndicesArePrefix ==
    /\ \A e \in 1..Len(episodes) :
          PersistedIndices(episodes[e].id)
             = 0..(Cardinality(PersistedIndices(episodes[e].id)) - 1)
    /\ (run = 1 /\ (InUpsertChunks \/ UpsertChunksFailed)) =>
          /\ PersistedIndices(episode_id) = 0..(Len(written) - 1)
          /\ Len(written) =< Len(episode.chunks)

\* upsert_chunks failed in the second batch: ten of twelve chunks or more
\* are persisted, not all
C16_Witness ==
    /\ run = 1 /\ UpsertChunksFailed
    /\ Len(written) >= batch_size
    /\ Len(written) < Len(episode.chunks)
    /\ PersistedIndices(episode_id) = 0..(Len(written) - 1)

\* every row of the table before the step is there behind it, unchanged or
\* overwritten under the same natural key and identifier
RowsKept(before, after, on_conflict) ==
    /\ Len(after) >= Len(before)
    /\ \A k \in 1..Len(before) :
          \/ after[k] = before[k]
          \/ SameKey(after[k], before[k], on_conflict) /\ after[k].id = before[k].id

\* every row of the table but the one under the written key is unchanged
OnlyKeyWritten(before, after, on_conflict, key) ==
    \A k \in 1..Len(before) : ~SameKey(before[k], key, on_conflict) => after[k] = before[k]

\* C17: no step of the ingester takes a natural key out of guests, episodes,
\* episode_guests or transcript_chunks; a step of upsert_chunks leaves every
\* chunk row but the one of the index it writes unchanged, and a step of
\* link_episode_guests every link but the one it writes.  So the rows of a
\* longer earlier version of an episode, and its guest links, stay.
C17_RowsAreNeverDeleted ==
    [][/\ RowsKept(guests, guests', {"slug"})
       /\ RowsKept(episodes, episodes', {"slug"})
       /\ RowsKept(episode_guests, episode_guests', {"episode_id", "guest_id"})
       /\ RowsKept(transcript_chunks, transcript_chunks', {"episode_id", "chunk_index"})
       /\ pc = "upsert_chunks" =>
             OnlyKeyWritten(transcript_chunks, transcript_chunks',
                            {"episode_id", "chunk_index"},
                            [episode_id |-> episode_id, chunk_index |-> Len(written)])
       /\ pc = "link_episode_guests" =>
             OnlyKeyWritten(episode_guests, episode_guests', {"episode_id", "guest_id"},
                            [episode_id |-> episode_id, guest_id |-> guest_ids[linked + 1]])
       /\ pc \notin {"upsert_chunks", "link_episode_guests"} =>
             UNCHANGED <<episode_guests, transcript_chunks>>]_vars

\* an episode of one chunk and one guest has been ingested again; the store
\* still holds its second chunk and its second guest link of the earlier run
C17_Witness ==
    /\ run = 3 /\ EpisodeJustIngested
    /\ Len(episode.chunks) = 1 /\ Len(guest_ids) = 1
    /\ PersistedIndices(episode_id) = {0, 1}
    /\ \E k \in 1..Len(transcript_chunks) :
          /\ transcript_chunks[k].episode_id = episode_id
          /\ transcript_chunks[k].chunk_index = 1
          /\ transcript_chunks[k].content = <<"y">>
    /\ Cardinality({k \in 1..Len(episode_guests) :
                       episode_guests[k].episode_id = episode_id}) = 2

====
